---- MODULE Spec2Model ----
(***************************************************************************)
(* Window lifecycle engine of stream-rag-agent (package window):           *)
(* Manager (registry, mutex, flush channel), the per-window                *)
(* timeBasedFlusher goroutines, the hand-off goroutine started by          *)
(* closeWindow, and the callers in main (Start, FlushAllWindows) and in    *)
(* the Kafka consumer (AddMessage).                                        *)
(*                                                                         *)
(* A critical section is two steps: the step that acquires m.mu and runs   *)
(* the code under the lock, and the step that releases m.mu.  Whatever a   *)
(* goroutine does without the lock (receiving from flushTrigger, running   *)
(* ProcessWindow, the clock advancing) is a step of its own.               *)
(***************************************************************************)
EXTENDS Integers, Sequences, FiniteSets, TLC

\* ---------------------------------------------------------------- bounds
MaxMsgs == 3          \* AddMessage calls in one behaviour
MaxTime == 2          \* the clock runs from 1 to MaxTime
MaxWindows == 2       \* Window objects allocated in one behaviour
MaxLag == 1           \* clock units between a message's timestamp and its ingestion
MaxRenderMsgs == 12   \* messages of a window given to ToContextString

\* ---------------------------------------------------------- configuration
Partitions == {0, 1}
DurationChoice == 1           \* config.WindowDurationSeconds (> 0)
ThresholdChoices == {0, 2}    \* config.WindowMaxMessages (0 disables)
StartPartition == 0           \* wm.Start(0) in main
FlushTriggerCap == 1          \* make(chan struct{}, 1)

ZeroTime == 0                 \* time.Time{} of a Window never appended to
NoWindow == 0                 \* key absent from m.windows
MaxSummarizeMessages == 10    \* maxSummarizeMessages := 10 in ToContextString

\* goroutine identities
NoHolder == <<"none", 0>>
MainG == <<"main", 0>>
ConsumerG == <<"consumer", 0>>
FlusherG(w) == <<"flusher", w>>
HandoffG(w) == <<"handoff", w>>

\* an Unlock that leaves the mutex with its holder
UnlockLost(holder) == holder

\* m.mu.Unlock() by the holder
Unlock(holder) == NoHolder

VARIABLES
    config,        \* Manager.config
    windows,       \* Manager.windows: partition key -> index into heap, or NoWindow
    mu,            \* Manager.mu: the goroutine holding it, or NoHolder
    flushTrigger,  \* Manager.flushTrigger: buffered signals, each tagged with the
                   \* window FlushAllWindows sent it for (receivers cannot see the tag)
    heap,          \* every *Window ever allocated, in creation order
    flusher,       \* flusher[w]: the timeBasedFlusher goroutine started for heap[w]
    handoff,       \* handoff[w]: the goroutine closeWindow started for heap[w]
    consumer,      \* the goroutine of Consumer.StartConsuming calling AddMessage,
                   \* and its currentWindow while it is inside the call
    mainG,         \* the goroutine of main calling Start and FlushAllWindows
    now,           \* wall clock
    ingested,      \* the partition of every message passed to AddMessage, in call
                   \* order; message i has Offset i
    processed,     \* processed[w]: the ProcessWindow invocations for heap[w], each the
                   \* window's content as handed over and the trigger that closed it
    flushRequested, \* windows that were open in the registry when FlushAllWindows ran
    summary,       \* a closed Window with the Value of its messages, and what the
                   \* calls of ToContextString on it returned
    reader         \* Consumer.reader as StartConsuming used it: the messages
                   \* FetchMessage returned and the CommitMessages calls made

vars == <<config, windows, mu, flushTrigger, heap, flusher, handoff, consumer,
          mainG, now, ingested, processed, flushRequested, summary, reader>>

\* ------------------------------------------------------------ Window type
NewWindow(partition, startTime) ==
    [Partition |-> partition, StartTime |-> startTime, EndTime |-> ZeroTime,
     Messages |-> <<>>, IsClosed |-> FALSE, MessageCount |-> 0]
\* Messages holds each RawKafkaMessage by its Offset, which identifies it

WindowID(win) == <<win.Partition, win.StartTime>>

\* an append that puts the newest message first
WindowAddMessageFront(win, msg) ==
    [win EXCEPT !.Messages = <<msg.Offset>> \o @,
                !.MessageCount = @ + 1,
                !.EndTime = msg.Timestamp]

WindowAddMessage(win, msg) ==
    [win EXCEPT !.Messages = Append(@, msg.Offset),
                !.MessageCount = @ + 1,
                !.EndTime = msg.Timestamp]

\* msg.Timestamp, the producer's clock, is drawn equal to the consumer's
MsgTimestamps(t) == {t}

\* ------------------------------------------------------------ closeWindow
\* closeWindow without its guard
AlreadyClosedNever(win) == FALSE

\* the guard at the top of closeWindow
AlreadyClosed(win) == win.IsClosed

\* ProcessWindow called in closeWindow itself, without `go`
ProcessRunnerInline(caller, w) == caller

\* the goroutine that executes processor.ProcessWindow(w): the one `go func()` starts
ProcessRunner(caller, w) == HandoffG(w)

\* a closeWindow that does not mark the window closed
closeWindowUnmarked(h, w, t) ==
    IF AlreadyClosed(h[w]) THEN h
    ELSE [h EXCEPT ![w].EndTime = t]

\* closeWindow's effect on the Window object
closeWindow(h, w, t) ==
    IF AlreadyClosed(h[w]) THEN h
    ELSE [h EXCEPT ![w].IsClosed = TRUE, ![w].EndTime = t]

\* closeWindow(w) called by `caller` under the lock, on heap h, goroutine table hb
\* and invocation table pb; trigger names the call site
CloseEffects(h, hb, pb, w, caller, trigger) ==
    /\ heap' = closeWindow(h, w, now)
    /\ IF AlreadyClosed(h[w])
       THEN /\ handoff' = hb
            /\ processed' = pb
       ELSE /\ handoff' = [hb EXCEPT ![w] = [pc |-> "processing",
                                             runner |-> ProcessRunner(caller, w),
                                             err |-> FALSE]]
            /\ processed' = [pb EXCEPT ![w] = Append(@,
                                   [MessageCount |-> h[w].MessageCount,
                                    Messages |-> h[w].Messages,
                                    EndTime |-> now,
                                    trigger |-> trigger])]

\* a step that allocates or closes n windows is taken only if the heap has room
\* for them and for the successor of every window whose hand-off is in flight
Room(n) ==
    Len(heap) + Cardinality({w \in 1..Len(heap) : handoff[w].pc = "processing"}) + n
        <= MaxWindows

NoHandoff == [pc |-> "none", runner |-> NoHolder, err |-> FALSE]
\* a window installed without `go m.timeBasedFlusher(w)`
NewFlusherNotStarted(t) == [pc |-> "unborn", ticker |-> t]

\* a flusher goroutine and the creation time of its ticker
NewFlusher(t) == [pc |-> "run", ticker |-> t]
UnbornFlusher == [pc |-> "unborn", ticker |-> 0]

\* ------------------------------------------------------------------- Init
\* no Window has been given to ToContextString
NoSummary == [w |-> NoWindow, out |-> <<>>]

\* the reader after NewConsumer: nothing fetched, nothing committed
NoReads == [fetched |-> <<>>, commits |-> <<>>]

\* the Manager after NewManager
ManagerInit ==
    /\ reader = NoReads
    /\ config \in [WindowDurationSeconds : {DurationChoice},
                   WindowMaxMessages : ThresholdChoices]
    /\ windows = [p \in Partitions |-> NoWindow]
    /\ mu = NoHolder
    /\ flushTrigger = <<>>
    /\ heap = <<>>
    /\ flusher = <<>>
    /\ handoff = <<>>
    /\ consumer = [pc |-> "idle", w |-> NoWindow]
    /\ mainG = [pc |-> "idle", todo |-> {}, w |-> 0, started |-> FALSE,
                flushed |-> FALSE, cancelled |-> FALSE]
    /\ now = 1
    /\ ingested = <<>>
    /\ processed = <<>>
    /\ flushRequested = {}

Init ==
    /\ ManagerInit
    /\ summary = NoSummary

\* ------------------------------------------------------------------ Start
\* main calls Start right after NewManager, before any consumer runs
StartLock(p) ==
    /\ mainG.pc = "idle"
    /\ ~mainG.started
    /\ mu = NoHolder
    /\ mu' = MainG
    /\ heap' = Append(heap, NewWindow(p, now))
    /\ flusher' = Append(flusher, UnbornFlusher)
    /\ handoff' = Append(handoff, NoHandoff)
    /\ processed' = Append(processed, <<>>)
    /\ windows' = [windows EXCEPT ![p] = Len(heap) + 1]
    /\ mainG' = [mainG EXCEPT !.pc = "startLocked", !.w = Len(heap) + 1]
    /\ UNCHANGED <<summary, reader, config, flushTrigger, consumer, now, ingested,
                   flushRequested>>

StartUnlock ==
    /\ mainG.pc = "startLocked"
    /\ mu' = Unlock(mu)
    /\ mainG' = [mainG EXCEPT !.pc = "startGo"]
    /\ UNCHANGED <<summary, reader, config, windows, flushTrigger, heap, flusher, handoff, consumer,
                   now, ingested, processed, flushRequested>>

StartGo ==
    /\ mainG.pc = "startGo"
    /\ flusher' = [flusher EXCEPT ![mainG.w] = NewFlusher(now)]
    /\ mainG' = [mainG EXCEPT !.pc = "idle", !.w = 0, !.started = TRUE]
    /\ UNCHANGED <<summary, reader, config, windows, mu, flushTrigger, heap, handoff, consumer,
                   now, ingested, processed, flushRequested>>

\* ------------------------------------------------------------- AddMessage
\* a threshold test that fires one message late
ThresholdReachedLate(cfg, win) ==
    cfg.WindowMaxMessages > 0 /\ win.MessageCount > cfg.WindowMaxMessages

ThresholdReached(cfg, win) ==
    cfg.WindowMaxMessages > 0 /\ win.MessageCount >= cfg.WindowMaxMessages

\* Manager.AddMessage called by the consumer goroutine with a message of
\* partition p and timestamp ts
AddMessageCall(p, ts) ==
    /\ mainG.started
    /\ Len(ingested) < MaxMsgs
    /\ mu = NoHolder
    /\ LET msg == [Partition |-> p, Offset |-> Len(ingested) + 1, Timestamp |-> ts]
           ok == windows[p] # NoWindow
           w == IF ok THEN windows[p] ELSE Len(heap) + 1
           heap1 == IF ok THEN heap ELSE Append(heap, NewWindow(p, ts))
           hand1 == IF ok THEN handoff ELSE Append(handoff, NoHandoff)
           proc1 == IF ok THEN processed ELSE Append(processed, <<>>)
           heap2 == [heap1 EXCEPT ![w] = WindowAddMessage(@, msg)]
       IN  /\ Room((IF ok THEN 0 ELSE 1)
                     + (IF ThresholdReached(config, heap2[w]) /\ ~heap2[w].IsClosed
                        THEN 1 ELSE 0))
           /\ windows' = [windows EXCEPT ![p] = w]
           /\ flusher' = IF ok THEN flusher ELSE Append(flusher, NewFlusher(now))
           /\ IF ThresholdReached(config, heap2[w])
              THEN CloseEffects(heap2, hand1, proc1, w, ConsumerG, "threshold")
              ELSE /\ heap' = heap2
                   /\ handoff' = hand1
                   /\ processed' = proc1
    /\ mu' = ConsumerG
    /\ consumer' = [pc |-> "locked",
                    w |-> IF windows[p] # NoWindow THEN windows[p] ELSE Len(heap) + 1]
    /\ ingested' = Append(ingested, p)
    /\ UNCHANGED <<summary, reader, config, flushTrigger, mainG, now, flushRequested>>

\* the consumer fetches a message and passes it to AddMessage
AddMessage(p, ts) ==
    /\ consumer.pc = "idle"
    /\ AddMessageCall(p, ts)

AddMessageUnlock ==
    /\ consumer.pc = "locked"
    /\ mu' = Unlock(mu)
    /\ consumer' = [pc |-> "idle", w |-> NoWindow]
    /\ UNCHANGED <<summary, reader, config, windows, flushTrigger, heap, flusher, handoff, mainG,
                   now, ingested, processed, flushRequested>>

\* ------------------------------------------------------- timeBasedFlusher
\* a timer that skips windows holding no message
TimedOutNonEmpty(win, t) ==
    /\ ~win.IsClosed
    /\ t - win.StartTime >= config.WindowDurationSeconds
    /\ win.MessageCount > 0

TimedOut(win, t) ==
    ~win.IsClosed /\ t - win.StartTime >= config.WindowDurationSeconds

\* ticker.C (capacity 1) holds a tick from the first period on.  A wake-up that
\* finds nothing to close changes nothing, so two wake-ups at one clock value are
\* the same as one and the ticks already consumed are not counted.
TickReady(f, t) == t >= f.ticker + config.WindowDurationSeconds

\* case <-ticker.C: lock, check, maybe close
FlusherTick(w) ==
    /\ flusher[w].pc = "run"
    /\ TickReady(flusher[w], now)
    /\ Room(IF TimedOut(heap[w], now) THEN 1 ELSE 0)
    /\ mu = NoHolder
    /\ mu' = FlusherG(w)
    /\ IF TimedOut(heap[w], now)
       THEN /\ CloseEffects(heap, handoff, processed, w, FlusherG(w), "tick")
            /\ flusher' = [flusher EXCEPT ![w].pc = "tickClosed"]
       ELSE /\ flusher' = [flusher EXCEPT ![w].pc = "tickLocked"]
            /\ UNCHANGED <<heap, handoff, processed>>
    /\ UNCHANGED <<summary, reader, config, windows, flushTrigger, consumer, mainG, now, ingested,
                   flushRequested>>

\* a flusher that returns after its first wake-up, whatever it found
AfterTickReturns(pc) == "done"

\* after the ticker branch: return if it closed the window, else loop
AfterTick(pc) == IF pc = "tickClosed" THEN "done" ELSE "run"

FlusherTickUnlock(w) ==
    /\ flusher[w].pc \in {"tickClosed", "tickLocked"}
    /\ mu' = Unlock(mu)
    /\ flusher' = [flusher EXCEPT ![w].pc = AfterTick(@)]
    /\ UNCHANGED <<summary, reader, config, windows, flushTrigger, heap, handoff, consumer, mainG,
                   now, ingested, processed, flushRequested>>

\* case <-m.flushTrigger: the receive itself, before m.mu.Lock()
FlusherRecv(w) ==
    /\ flusher[w].pc = "run"
    /\ flushTrigger # <<>>
    /\ flushTrigger' = Tail(flushTrigger)
    /\ flusher' = [flusher EXCEPT ![w].pc = "flush"]
    /\ UNCHANGED <<summary, reader, config, windows, mu, heap, handoff, consumer, mainG, now,
                   ingested, processed, flushRequested>>

FlusherFlush(w) ==
    /\ flusher[w].pc = "flush"
    /\ Room(IF heap[w].IsClosed THEN 0 ELSE 1)
    /\ mu = NoHolder
    /\ mu' = FlusherG(w)
    /\ IF ~heap[w].IsClosed
       THEN CloseEffects(heap, handoff, processed, w, FlusherG(w), "flush")
       ELSE UNCHANGED <<heap, handoff, processed>>
    /\ flusher' = [flusher EXCEPT ![w].pc = "flushLocked"]
    /\ UNCHANGED <<summary, reader, config, windows, flushTrigger, consumer, mainG, now, ingested,
                   flushRequested>>

FlusherFlushUnlock(w) ==
    /\ flusher[w].pc = "flushLocked"
    /\ mu' = Unlock(mu)
    /\ flusher' = [flusher EXCEPT ![w].pc = "done"]
    /\ UNCHANGED <<summary, reader, config, windows, flushTrigger, heap, handoff, consumer, mainG,
                   now, ingested, processed, flushRequested>>

\* ------------------------------------------- closeWindow's go func() { ... }
\* a hand-off that returns on a ProcessWindow error
InstallsOnlyOnSuccess(err) == ~err

\* whether the goroutine goes on to install the successor after ProcessWindow
\* returned err: the error is logged and execution continues
InstallsAfter(err) == TRUE

\* a hand-off that deletes the key and leaves the insertion to the next AddMessage
DeleteOnly(reg, key, w) == [reg EXCEPT ![key] = NoWindow]

\* delete(m.windows, key); m.windows[key] = newWindow
Reinsert(reg, key, w) == [reg EXCEPT ![key] = w]

\* ProcessWindow returns err (TRUE: a non-nil error, which is only logged); the
\* goroutine then takes the lock, deletes the key and installs a new window
HandoffInstall(w, err) ==
    /\ handoff[w].pc = "processing"
    /\ mu = NoHolder
    /\ mu' = handoff[w].runner
    /\ IF InstallsAfter(err)
       THEN /\ heap' = Append(heap, NewWindow(heap[w].Partition, now))
            /\ windows' = Reinsert(windows, heap[w].Partition, Len(heap) + 1)
            /\ flusher' = Append(flusher, NewFlusher(now))
            /\ handoff' = Append([handoff EXCEPT ![w].pc = "locked", ![w].err = err],
                                 NoHandoff)
            /\ processed' = Append(processed, <<>>)
       ELSE /\ handoff' = [handoff EXCEPT ![w].pc = "locked", ![w].err = err]
            /\ UNCHANGED <<heap, windows, flusher, processed>>
    /\ UNCHANGED <<summary, reader, config, flushTrigger, consumer, mainG, now, ingested,
                   flushRequested>>

HandoffUnlock(w) ==
    /\ handoff[w].pc = "locked"
    /\ mu' = Unlock(mu)
    /\ handoff' = [handoff EXCEPT ![w].pc = "done", ![w].err = FALSE]
    /\ UNCHANGED <<summary, reader, config, windows, flushTrigger, heap, flusher, consumer, mainG,
                   now, ingested, processed, flushRequested>>

\* -------------------------------------------------------- FlushAllWindows
\* main calls FlushAllWindows once per Manager, on shutdown
FlushLock ==
    /\ mainG.pc = "idle"
    /\ mainG.started
    /\ ~mainG.flushed
    /\ mu = NoHolder
    /\ mu' = MainG
    /\ mainG' = [mainG EXCEPT !.pc = "flushing", !.flushed = TRUE,
                              !.todo = {p \in Partitions : windows[p] # NoWindow}]
    /\ flushRequested' = flushRequested \cup
           {windows[p] : p \in {q \in Partitions :
                                  windows[q] # NoWindow /\ ~heap[windows[q]].IsClosed}}
    /\ UNCHANGED <<summary, reader, config, windows, flushTrigger, heap, flusher, handoff, consumer,
                   now, ingested, processed>>

\* a plain send `ch <- x`, which waits while the buffer is full
SendWaitsForRoom(ch) == Len(ch) < FlushTriggerCap

\* `select { case ch <- x: default: }` goes on whatever the buffer holds
SendProceeds(ch) == TRUE

\* one iteration of `for _, w := range m.windows`
FlushIter(p) ==
    /\ mainG.pc = "flushing"
    /\ p \in mainG.todo
    /\ heap[windows[p]].IsClosed \/ SendProceeds(flushTrigger)
    /\ mainG' = [mainG EXCEPT !.todo = @ \ {p}]
    /\ flushTrigger' =
          IF ~heap[windows[p]].IsClosed /\ Len(flushTrigger) < FlushTriggerCap
          THEN Append(flushTrigger, windows[p])
          ELSE flushTrigger
    /\ UNCHANGED <<summary, reader, config, windows, mu, heap, flusher, handoff, consumer, now,
                   ingested, processed, flushRequested>>

FlushUnlock ==
    /\ mainG.pc = "flushing"
    /\ mainG.todo = {}
    /\ mu' = Unlock(mu)
    /\ mainG' = [mainG EXCEPT !.pc = "idle"]
    /\ UNCHANGED <<summary, reader, config, windows, flushTrigger, heap, flusher, handoff, consumer,
                   now, ingested, processed, flushRequested>>

\* ------------------------------------------------------------------ clock
\* one clock unit is far longer than a critical section
Tick ==
    /\ now < MaxTime
    /\ mu = NoHolder
    /\ now' = now + 1
    /\ UNCHANGED <<summary, reader, config, windows, mu, flushTrigger, heap, flusher, handoff,
                   consumer, mainG, ingested, processed, flushRequested>>

Next ==
    \/ StartLock(StartPartition)
    \/ StartUnlock
    \/ StartGo
    \/ \E p \in Partitions : \E ts \in MsgTimestamps(now) : AddMessage(p, ts)
    \/ AddMessageUnlock
    \/ \E w \in 1..Len(heap) : FlusherTick(w)
    \/ \E w \in 1..Len(heap) : FlusherTickUnlock(w)
    \/ \E w \in 1..Len(heap) : FlusherRecv(w)
    \/ \E w \in 1..Len(heap) : FlusherFlush(w)
    \/ \E w \in 1..Len(heap) : FlusherFlushUnlock(w)
    \/ \E w \in 1..Len(heap) : \E err \in BOOLEAN : HandoffInstall(w, err)
    \/ \E w \in 1..Len(heap) : HandoffUnlock(w)
    \/ FlushLock
    \/ \E p \in Partitions : FlushIter(p)
    \/ FlushUnlock
    \/ Tick

Spec == Init /\ [][Next]_vars

TypeOK ==
    /\ mu \in {NoHolder, MainG, ConsumerG}
              \cup {FlusherG(w) : w \in 1..Len(heap)}
              \cup {HandoffG(w) : w \in 1..Len(heap)}
    /\ Len(flusher) = Len(heap)
    /\ Len(handoff) = Len(heap)
    /\ Len(flushTrigger) <= FlushTriggerCap
    /\ \A p \in Partitions : windows[p] \in 0..Len(heap)
\* --------------------------------------------------------------- shutdown
\* the loop of Consumer.StartConsuming and the shutdown sequence of main, step
\* by step: FetchMessage returns a message only while ctx is not cancelled

\* c.reader.FetchMessage(ctx) returns a message
ConsumerFetch(p, ts) ==
    /\ consumer.pc = "idle"
    /\ mainG.started
    /\ ~mainG.cancelled
    /\ Len(ingested) < MaxMsgs
    /\ consumer' = [pc |-> "fetched", w |-> NoWindow, p |-> p, ts |-> ts]
    /\ reader' = [reader EXCEPT !.fetched = Append(@, [Partition |-> p, Timestamp |-> ts])]
    /\ UNCHANGED <<summary, config, windows, mu, flushTrigger, heap, flusher,
                   handoff, mainG, now, ingested, processed, flushRequested>>

\* a loop that gives up on the first failed fetch
AfterFetchErrorReturns(cancelled) == "stopped"

\* if ctx.Err() != nil { return }; time.Sleep(time.Second); continue
AfterFetchError(cancelled) == IF cancelled THEN "stopped" ELSE "backoff"

\* c.reader.FetchMessage(ctx) returns an error
ConsumerFetchFail ==
    /\ consumer.pc = "idle"
    /\ mainG.started
    /\ consumer' = [pc |-> AfterFetchError(mainG.cancelled), w |-> NoWindow]
    /\ UNCHANGED <<summary, reader, config, windows, mu, flushTrigger, heap, flusher,
                   handoff, mainG, now, ingested, processed, flushRequested>>

\* time.Sleep(time.Second) is over: back to the head of the loop
ConsumerRetry ==
    /\ consumer.pc = "backoff"
    /\ consumer' = [pc |-> "idle", w |-> NoWindow]
    /\ UNCHANGED <<summary, reader, config, windows, mu, flushTrigger, heap, flusher,
                   handoff, mainG, now, ingested, processed, flushRequested>>

\* c.wm.AddMessage(kafkaMsg) with the message fetched
ConsumerCall ==
    /\ consumer.pc = "fetched"
    /\ AddMessageCall(consumer.p, consumer.ts)

\* AddMessage returns to the loop (its deferred Unlock)
ConsumerReturn ==
    /\ consumer.pc = "locked"
    /\ mu' = Unlock(mu)
    /\ consumer' = [pc |-> "commit", w |-> NoWindow]
    /\ UNCHANGED <<summary, reader, config, windows, flushTrigger, heap, flusher,
                   handoff, mainG, now, ingested, processed, flushRequested>>

\* a loop that ends when a commit fails
AfterCommitFatal(ok) == IF ok THEN "idle" ELSE "stopped"

\* the error of CommitMessages is logged and the loop goes on
AfterCommit(ok) == "idle"

\* c.reader.CommitMessages(ctx, msg) for the message in hand, the last one
\* fetched; it fails when ok is FALSE, which it does once ctx is cancelled
ConsumerCommit(ok) ==
    /\ consumer.pc = "commit"
    /\ mainG.cancelled => ~ok
    /\ reader' = [reader EXCEPT !.commits =
                      Append(@, [Offset |-> Len(reader.fetched), ok |-> ok])]
    /\ consumer' = [pc |-> AfterCommit(ok), w |-> NoWindow]
    /\ UNCHANGED <<summary, config, windows, mu, flushTrigger, heap, flusher,
                   handoff, mainG, now, ingested, processed, flushRequested>>

\* case <-ctx.Done(): return
ConsumerStop ==
    /\ consumer.pc = "idle"
    /\ mainG.cancelled
    /\ consumer' = [pc |-> "stopped", w |-> NoWindow]
    /\ UNCHANGED <<summary, reader, config, windows, mu, flushTrigger, heap, flusher,
                   handoff, mainG, now, ingested, processed, flushRequested>>

\* main receives the signal and calls cancel()
Cancel ==
    /\ mainG.pc = "idle"
    /\ mainG.started
    /\ ~mainG.cancelled
    /\ mainG' = [mainG EXCEPT !.cancelled = TRUE]
    /\ UNCHANGED <<summary, reader, config, windows, mu, flushTrigger, heap, flusher,
                   handoff, consumer, now, ingested, processed, flushRequested>>

\* after cancel() and apiServer.Shutdown, main calls FlushAllWindows
ShutdownFlushLock ==
    /\ mainG.cancelled
    /\ FlushLock

NextShutdown ==
    \/ StartLock(StartPartition)
    \/ StartUnlock
    \/ StartGo
    \/ \E p \in Partitions : \E ts \in MsgTimestamps(now) : ConsumerFetch(p, ts)
    \/ ConsumerFetchFail
    \/ ConsumerRetry
    \/ ConsumerCall
    \/ ConsumerReturn
    \/ \E ok \in BOOLEAN : ConsumerCommit(ok)
    \/ ConsumerStop
    \/ \E w \in 1..Len(heap) : FlusherTick(w)
    \/ \E w \in 1..Len(heap) : FlusherTickUnlock(w)
    \/ \E w \in 1..Len(heap) : FlusherRecv(w)
    \/ \E w \in 1..Len(heap) : FlusherFlush(w)
    \/ \E w \in 1..Len(heap) : FlusherFlushUnlock(w)
    \/ \E w \in 1..Len(heap) : \E err \in BOOLEAN : HandoffInstall(w, err)
    \/ \E w \in 1..Len(heap) : HandoffUnlock(w)
    \/ Cancel
    \/ ShutdownFlushLock
    \/ \E p \in Partitions : FlushIter(p)
    \/ FlushUnlock
    \/ Tick

SpecShutdown == Init /\ [][NextShutdown]_vars

\* -------------------------------------------------------- ToContextString
\* msg.Value: a JSON text is the sequence of its members as written, anything
\* else is not an object
NotJSON == [json |-> FALSE, members |-> <<>>]
OneKey == [json |-> TRUE, members |-> << <<"id", 1>> >>]
TwoKeys == [json |-> TRUE, members |-> << <<"id", 1>>, <<"type", 2>> >>]

\* json.Unmarshal(msg.Value, &data) with data a map[string]interface{}
Unmarshal(value) ==
    [err |-> ~value.json,
     data |-> [k \in {value.members[i][1] : i \in DOMAIN value.members} |->
                 LET i == CHOOSE j \in DOMAIN value.members : value.members[j][1] = k
                 IN  value.members[i][2]]]

\* `for k, v := range data`: the runtime starts the iteration of a map at a
\* position it draws at random; the orders are the enumerations of the keys
MapRanges(data) ==
    LET K == DOMAIN data
    IN  {ord \in [1..Cardinality(K) -> K] :
            \A i, j \in 1..Cardinality(K) : i # j => ord[i] # ord[j]}

\* the lines written for one message, its map ranged over in the order ord
RenderMessage(msg, ord) ==
    LET u == Unmarshal(msg.Value)
    IN  IF u.err
        THEN << <<"Raw Message", msg.Offset, msg.Value>> >>
        ELSE << <<"Message Details", msg.Offset>> >>
                \o [j \in 1..Len(ord) |-> <<"field", ord[j], u.data[ord[j]]>>]

RECURSIVE RenderUpTo(_, _, _)
RenderUpTo(win, ords, i) ==
    IF i = 0 THEN <<>>
    ELSE RenderUpTo(win, ords, i - 1) \o RenderMessage(win.Messages[i], ords[i])

\* a limit that is the message count whatever it is
SummarizeLimitUncapped(win) == win.MessageCount

SummarizeLimit(win) ==
    IF win.MessageCount < MaxSummarizeMessages
    THEN win.MessageCount
    ELSE MaxSummarizeMessages

NoMessagesForm(win) == << <<"No messages in this window", WindowID(win)>> >>

\* ToContextString on win, the map of message i ranged over in the order ords[i]
ToContextString(win, ords) ==
    IF Len(win.Messages) = 0
    THEN [text |-> NoMessagesForm(win), err |-> FALSE]
    ELSE [text |->
            << <<"Kafka Topic">>,
               <<"Topic Context">>,
               <<"Window", WindowID(win), win.StartTime, win.EndTime, win.MessageCount>>,
               <<"Messages:">> >>
            \o RenderUpTo(win, ords, SummarizeLimit(win))
            \o (IF win.MessageCount > SummarizeLimit(win)
                THEN << <<"more messages", win.MessageCount - SummarizeLimit(win)>> >>
                ELSE <<>>),
          err |-> FALSE]

\* the orders the runtime can give the map ranges of one call
RangeChoices(win) ==
    LET shown == 1..SummarizeLimit(win)
        many == {i \in shown :
                    Cardinality(DOMAIN Unmarshal(win.Messages[i].Value).data) > 1}
        only(i) == CHOOSE ord \in MapRanges(Unmarshal(win.Messages[i].Value).data) : TRUE
    IN  {[i \in shown |-> IF i \in many THEN f[i] ELSE only(i)] :
            f \in [many -> UNION {MapRanges(Unmarshal(win.Messages[i].Value).data) :
                                    i \in many}]}

\* closed windows of up to MaxRenderMsgs messages: at most one message that is
\* not JSON, at most one with two keys, the others with one key
RenderedWindows ==
    {[NewWindow(StartPartition, 1) EXCEPT
         !.Messages = [i \in 1..n |->
                          [Offset |-> i,
                           Value |-> IF i = rawAt THEN NotJSON
                                     ELSE IF i = twoAt THEN TwoKeys ELSE OneKey]],
         !.MessageCount = n,
         !.EndTime = 1,
         !.IsClosed = TRUE] :
       n \in 0..MaxRenderMsgs, rawAt \in 0..MaxRenderMsgs, twoAt \in 0..MaxRenderMsgs}

InitRender ==
    /\ ManagerInit
    /\ summary \in {[w |-> win, out |-> <<>>] : win \in RenderedWindows}

\* one call of ToContextString on the window; ProcessWindow makes one, and
\* nothing keeps a caller from making another
Render ==
    /\ Len(summary.out) < 2
    /\ \E ords \in RangeChoices(summary.w) :
          summary' = [summary EXCEPT !.out = Append(@, ToContextString(summary.w, ords))]
    /\ UNCHANGED <<reader, config, windows, mu, flushTrigger, heap, flusher, handoff,
                   consumer, mainG, now, ingested, processed, flushRequested>>

NextRender == Render

SpecRender == InitRender /\ [][NextRender]_vars

\* ------------------------------------------------------------ vocabulary
Wins == 1..Len(heap)
WinsOf(p) == {w \in Wins : heap[w].Partition = p}
OpenWins == {w \in Wins : ~heap[w].IsClosed}

\* offsets of the messages ingested for partition p, in AddMessage call order
RECURSIVE OffsetsOf(_, _)
OffsetsOf(p, n) ==
    IF n = 0 THEN <<>>
    ELSE IF ingested[n] = p THEN Append(OffsetsOf(p, n - 1), n)
         ELSE OffsetsOf(p, n - 1)
Ingested(p) == OffsetsOf(p, Len(ingested))

RECURSIVE SumOver(_, _)
SumOver(S, f) ==
    IF S = {} THEN 0
    ELSE LET x == CHOOSE y \in S : TRUE IN f[x] + SumOver(S \ {x}, f)

\* events of heap[w] as ProcessWindow was given them (0 if never handed over)
HandedCount == [w \in Wins |->
                  IF processed[w] = <<>> THEN 0 ELSE processed[w][1].MessageCount]
OpenCount == [w \in Wins |-> IF heap[w].IsClosed THEN 0 ELSE heap[w].MessageCount]

FirstWindowOf(p) == CHOOSE w \in WinsOf(p) : \A v \in WinsOf(p) : w <= v
Prefix(sq, n) == SubSeq(sq, 1, n)

\* ------------------------------------------------------------------- C1
\* C1: for every stream key, the event counts of the windows handed to
\* ProcessWindow (as handed over) plus the count of the window still open add
\* up to the number of events ingested for the key: none dropped, none duplicated.
C1_EveryEventCounted ==
    \A p \in Partitions :
        SumOver(WinsOf(p), HandedCount) + SumOver(WinsOf(p), OpenCount)
            = Len(Ingested(p))

\* ------------------------------------------------------------------- C2
\* C2: with WindowMaxMessages = N > 0 and the key's first window not closed by
\* its timer or a flush, N AddMessage calls close it with MessageCount = N holding
\* those N events in order, and the (N+1)-th event is not in that window but is
\* the first event of another window of the key.
C2_ThresholdRotation ==
    config.WindowMaxMessages > 0 =>
      \A p \in Partitions :
        LET N == config.WindowMaxMessages
            ms == Ingested(p)
            w1 == FirstWindowOf(p)
        IN  (/\ WinsOf(p) # {}
             /\ Len(ms) >= N
             /\ (processed[w1] = <<>> \/ processed[w1][1].trigger = "threshold"))
            => /\ heap[w1].IsClosed
               /\ Len(processed[w1]) = 1
               /\ processed[w1][1].MessageCount = N
               /\ processed[w1][1].Messages = Prefix(ms, N)
               /\ Len(ms) >= N + 1 =>
                    /\ \A i \in 1..Len(heap[w1].Messages) :
                          heap[w1].Messages[i] # ms[N + 1]
                    /\ \E w2 \in WinsOf(p) \ {w1} :
                          /\ heap[w2].Messages # <<>>
                          /\ heap[w2].Messages[1] = ms[N + 1]

\* ------------------------------------------------------------------- C3
\* C3: ProcessWindow is invoked exactly once for a closed Window instance and
\* never for an open one, whichever of the three triggers closed it and whatever
\* the other triggers do afterwards.
C3_HandedOverOnce ==
    \A w \in Wins :
        /\ Len(processed[w]) <= 1
        /\ heap[w].IsClosed <=> Len(processed[w]) = 1

\* a trigger that lost the race is inside its critical section on a closed
\* window: AddMessage reached the threshold on a window the flusher had closed,
\* or a flusher woke up on a window AddMessage had closed
C3_LoserSeesClosed ==
    \E w \in Wins :
        /\ heap[w].IsClosed
        /\ Len(processed[w]) = 1
        /\ \/ /\ processed[w][1].trigger # "threshold"
              /\ consumer.pc = "locked"
              /\ consumer.w = w
              /\ ThresholdReached(config, heap[w])
           \/ /\ processed[w][1].trigger = "threshold"
              /\ flusher[w].pc \in {"tickLocked", "flushLocked"}

\* ------------------------------------------------------------------- C4
\* C4: the goroutine executing ProcessWindow never holds the Manager mutex.
C4_ProcessOutsideLock ==
    \A w \in Wins : handoff[w].pc = "processing" => mu # handoff[w].runner

\* AddMessage holds the mutex, on a later call than the one that closed the
\* window, while ProcessWindow of that window is still running
C4_AddMessageDuringProcess ==
    \E w \in Wins :
        /\ handoff[w].pc = "processing"
        /\ mu = ConsumerG
        /\ \/ consumer.w # w
           \/ heap[w].MessageCount > processed[w][1].MessageCount

\* ------------------------------------------------------------------- C5
\* C5: whenever the mutex is free, no Window in the registry is closed.
C5_RegistryHoldsOpenOnly ==
    mu = NoHolder =>
        \A p \in Partitions :
            windows[p] # NoWindow => ~heap[windows[p]].IsClosed

\* ------------------------------------------------------------------- C6
\* C6: a closed Window keeps the Messages, MessageCount and EndTime it had when
\* closeWindow closed it.
C6_ClosedIsFrozen ==
    \A w \in Wins :
        (heap[w].IsClosed /\ processed[w] # <<>>) =>
            /\ heap[w].Messages = processed[w][1].Messages
            /\ heap[w].MessageCount = processed[w][1].MessageCount
            /\ heap[w].EndTime = processed[w][1].EndTime

\* ------------------------------------------------------------------- C7
\* the step in which a hand-off goroutine leaves ProcessWindow and takes the lock
C7_Step ==
    \A w \in Wins :
        (handoff[w].pc = "processing" /\ handoff'[w].pc = "locked") =>
            LET p == heap[w].Partition
                n == Len(heap) + 1
            IN  /\ Len(heap') = n
                /\ windows'[p] = n
                /\ heap'[n] = NewWindow(p, now)
                /\ flusher'[n].pc = "run"
                /\ handoff'[n].pc = "none"
                /\ processed'[w] = processed[w]
                /\ Len(processed[w]) = 1
                /\ consumer' = consumer
                /\ \A v \in Wins : flusher'[v] = flusher[v]

\* C7: when ProcessWindow has returned, with an error or without, the hand-off
\* goroutine installs a new empty open window for the key with a running flusher,
\* the closed window is not handed over again, and neither the consumer nor any
\* flusher is affected.
C7_ErrorStillInstalls == [][C7_Step]_vars

\* ProcessWindow returned an error and the successor is in the registry
C7_InstalledAfterError ==
    \E w \in Wins :
        /\ handoff[w].pc = "locked"
        /\ handoff[w].err
        /\ windows[heap[w].Partition] = Len(heap)
        /\ heap[Len(heap)] = NewWindow(heap[w].Partition, now)
        /\ flusher[Len(heap)].pc = "run"

\* ------------------------------------------------------------------- C8
\* C8: the successor of a closed window is installed without waiting for
\* ProcessWindow: once the closing critical section is over, the registry holds
\* an open window for the key while ProcessWindow is still running.
C8_SuccessorWithoutWaiting ==
    \A w \in Wins :
        (handoff[w].pc = "processing" /\ mu = NoHolder) =>
            LET cur == windows[heap[w].Partition]
            IN  cur # NoWindow /\ cur # w /\ ~heap[cur].IsClosed

\* ------------------------------------------------------------------- C9
\* FlushAllWindows has returned and no signal of it is buffered or being handled
FlushSettled ==
    /\ mainG.flushed
    /\ mainG.pc = "idle"
    /\ flushTrigger = <<>>
    /\ \A w \in Wins : flusher[w].pc \notin {"flush", "flushLocked"}

\* C9: once FlushAllWindows has returned and every signal it sent has been
\* received and acted on, every window that was open in the registry when it was
\* called is closed (its timer was not needed).
C9_FlushClosesAll ==
    FlushSettled => \A w \in flushRequested : heap[w].IsClosed

\* ------------------------------------------------------------------ C10
\* flusher goroutines that have not returned
RunningFlushers == {w \in Wins : flusher[w].pc \in {"run", "flush"}}

\* C10: outside critical sections, the flusher goroutines still running are
\* exactly those of the windows that are still open.
C10_FlushersOfOpenWindows ==
    (mu = NoHolder /\ mainG.pc = "idle") => RunningFlushers = OpenWins

\* ------------------------------------------------------------------ C11
\* the step in which AddMessage takes the lock, appends and tests the threshold
C11_Step ==
    (consumer.pc # "locked" /\ consumer'.pc = "locked") =>
        LET w == consumer'.w
            N == config.WindowMaxMessages
            wasOpen == w > Len(heap) \/ ~heap[w].IsClosed
        IN  /\ wasOpen =>
                  (heap'[w].IsClosed <=> (N > 0 /\ heap'[w].MessageCount >= N))
            /\ (wasOpen /\ heap'[w].IsClosed) =>
                  /\ Len(processed'[w]) = 1
                  /\ processed'[w][1].trigger = "threshold"
                  /\ handoff'[w].pc = "processing"
            /\ \A v \in Wins \ {w} : heap'[v].IsClosed = heap[v].IsClosed
            /\ N = 0 =>
                  \A v \in 1..Len(heap') :
                      processed'[v] # <<>> =>
                          processed'[v][1].trigger \in {"tick", "flush"}

\* C11: with WindowMaxMessages = 0 AddMessage closes no window, so that every
\* closure comes from a timer tick or a flush signal; with WindowMaxMessages =
\* N > 0 AddMessage closes the open window it appended to, before it returns,
\* exactly when the count after the append is >= N.
C11_ThresholdOnlyWhenEnabled == [][C11_Step]_vars

\* AddMessage is still in its critical section after closing a window whose
\* count it brought to N
C11_ClosedAtThreshold ==
    /\ consumer.pc = "locked"
    /\ config.WindowMaxMessages > 0
    /\ heap[consumer.w].IsClosed
    /\ heap[consumer.w].MessageCount = config.WindowMaxMessages
    /\ processed[consumer.w] # <<>>
    /\ processed[consumer.w][1].trigger = "threshold"

\* ------------------------------------------------------------------ C12
\* a Kafka message carries the time it was produced, which is the clock of its
\* ingestion or earlier
LaggingTimestamps(t) == {ts \in (t - MaxLag)..t : ts >= 0}

\* a flusher whose ticker has fired on a window that is due
Overdue(w) ==
    /\ flusher[w].pc = "run"
    /\ TickReady(flusher[w], now)
    /\ TimedOut(heap[w], now)

\* the clock under a prompt scheduler: a goroutine that was started, and a
\* flusher woken by its ticker, run before the next clock unit begins
TickPrompt ==
    /\ \A w \in Wins : flusher[w].pc # "unborn" /\ ~Overdue(w)
    /\ Tick

InitTimed ==
    /\ Init
    /\ config.WindowMaxMessages = 0

NextTimed ==
    \/ StartLock(StartPartition)
    \/ StartUnlock
    \/ StartGo
    \/ \E p \in Partitions : \E ts \in LaggingTimestamps(now) : AddMessage(p, ts)
    \/ AddMessageUnlock
    \/ \E w \in 1..Len(heap) : FlusherTick(w)
    \/ \E w \in 1..Len(heap) : FlusherTickUnlock(w)
    \/ \E w \in 1..Len(heap) : FlusherRecv(w)
    \/ \E w \in 1..Len(heap) : FlusherFlush(w)
    \/ \E w \in 1..Len(heap) : FlusherFlushUnlock(w)
    \/ \E w \in 1..Len(heap) : \E err \in BOOLEAN : HandoffInstall(w, err)
    \/ \E w \in 1..Len(heap) : HandoffUnlock(w)
    \/ FlushLock
    \/ \E p \in Partitions : FlushIter(p)
    \/ FlushUnlock
    \/ TickPrompt

SpecTimed == InitTimed /\ [][NextTimed]_vars

\* clock units from the StartTime of heap[w] to its closure
ClosedAge(w) == processed[w][1].EndTime - heap[w].StartTime

\* C12: with WindowMaxMessages = 0 and WindowDurationSeconds = D, a window,
\* whether it was created by Start, lazily by AddMessage or by a rotation, is
\* closed by the timer of its flusher no earlier than D and less than one clock
\* unit later than D after its StartTime: a window the timer closed has such an
\* age, and no window still waiting for its timer is older.
C12_ClosedWithinDuration ==
    config.WindowMaxMessages = 0 =>
        \A w \in Wins :
            /\ (processed[w] # <<>> /\ processed[w][1].trigger = "tick") =>
                  /\ ClosedAge(w) >= config.WindowDurationSeconds
                  /\ ClosedAge(w) < config.WindowDurationSeconds + 1
            /\ (~heap[w].IsClosed /\ flusher[w].pc = "run") =>
                  now - heap[w].StartTime < config.WindowDurationSeconds + 1

\* ------------------------------------------------------------------ C13
\* the step in which a flusher woken by its ticker finds its window open, due
\* and empty, and the step in which the hand-off of a window that was handed
\* over empty leaves ProcessWindow
C13_Step ==
    \A w \in Wins :
        /\ (/\ flusher[w].pc = "run"
            /\ flusher'[w].pc \in {"tickClosed", "tickLocked"}
            /\ ~heap[w].IsClosed
            /\ now - heap[w].StartTime >= config.WindowDurationSeconds
            /\ heap[w].MessageCount = 0)
           => /\ heap'[w].IsClosed
              /\ Len(processed'[w]) = 1
              /\ processed'[w][1].MessageCount = 0
              /\ processed'[w][1].Messages = <<>>
              /\ handoff'[w].pc = "processing"
        /\ (/\ handoff[w].pc = "processing"
            /\ handoff'[w].pc = "locked"
            /\ processed[w][1].MessageCount = 0)
           => LET n == Len(heap) + 1
              IN  /\ Len(heap') = n
                  /\ windows'[heap[w].Partition] = n
                  /\ ~heap'[n].IsClosed
                  /\ heap'[n].MessageCount = 0
                  /\ heap'[n].Messages = <<>>
                  /\ Len(processed'[w]) = 1

\* C13: when the duration timer fires on an open window holding no event, the
\* window is closed and handed to ProcessWindow once, with MessageCount 0, and
\* after ProcessWindow a new empty open window is installed for the key.
C13_EmptyWindowRotates == [][C13_Step]_vars

\* a window the timer closed empty has been replaced by a new empty window
C13_EmptyRotated ==
    \E w \in Wins :
        /\ processed[w] # <<>>
        /\ processed[w][1].trigger = "tick"
        /\ processed[w][1].MessageCount = 0
        /\ handoff[w].pc \in {"locked", "done"}
        /\ windows[heap[w].Partition] > w
        /\ heap[windows[heap[w].Partition]].MessageCount = 0
        /\ ~heap[windows[heap[w].Partition]].IsClosed

\* ------------------------------------------------------------------ C14
\* the Messages of the windows of partition p with index <= n, one window after
\* the other in creation order
RECURSIVE StoredUpTo(_, _)
StoredUpTo(p, n) ==
    IF n = 0 THEN <<>>
    ELSE IF heap[n].Partition = p THEN StoredUpTo(p, n - 1) \o heap[n].Messages
         ELSE StoredUpTo(p, n - 1)

\* C14: within one stream key the events of each window are stored in the order
\* of the AddMessage calls for the key, and the event sequences of the key's
\* windows, concatenated in window-creation order, are the ingest order of the
\* key: nothing is reordered inside a window or across successive windows.
C14_IngestOrderKept ==
    \A p \in Partitions : StoredUpTo(p, Len(heap)) = Ingested(p)

\* a key whose events are spread over two windows, the later holding two
C14_TwoWindowsFilled ==
    \E p \in Partitions : \E w1, w2 \in WinsOf(p) :
        /\ w1 < w2
        /\ heap[w1].MessageCount >= 1
        /\ heap[w2].MessageCount >= 2

\* ------------------------------------------------------------------ C15
\* C15: of all the Window instances ever created for a stream key, by Start, by
\* AddMessage or by closeWindow, at most one has IsClosed = false.
C15_OneOpenPerKey ==
    \A p \in Partitions : Cardinality(WinsOf(p) \cap OpenWins) <= 1

\* a key that has had two windows: the closed first one and its open successor
C15_SuccessorIsTheOnlyOpen ==
    \E p \in Partitions : \E w1, w2 \in WinsOf(p) :
        /\ w1 < w2
        /\ heap[w1].IsClosed
        /\ WinsOf(p) \cap OpenWins = {w2}

\* ------------------------------------------------------------------ C16
\* C16: two calls of ToContextString on the same closed window, with no append
\* in between, return the same text, whatever the window holds, events whose
\* JSON payload has two or more keys included.
C16_SameSummaryTwice ==
    Len(summary.out) = 2 => summary.out[1] = summary.out[2]

\* ------------------------------------------------------------------ C17
IsEntry(line) == line[1] \in {"Raw Message", "Message Details"}
IsNotice(line) == line[1] = "more messages"

\* C17: ToContextString returns the no-messages form iff the window holds no
\* event; otherwise it renders the earliest min(MessageCount, 10) events in
\* order, an event whose payload is not JSON as a raw line that does not stop
\* the rendering of the later ones, and it ends with a truncation notice stating
\* MessageCount - 10 iff MessageCount > 10; it never returns an error.
C17_SummaryShape ==
    \A c \in 1..Len(summary.out) :
        LET win == summary.w
            n == win.MessageCount
            shown == IF n < MaxSummarizeMessages THEN n ELSE MaxSummarizeMessages
            text == summary.out[c].text
            entries == SelectSeq(text, IsEntry)
        IN  /\ ~summary.out[c].err
            /\ (text = NoMessagesForm(win)) <=> (n = 0)
            /\ n > 0 =>
                  /\ Len(entries) = shown
                  /\ \A i \in 1..shown :
                        /\ entries[i][2] = win.Messages[i].Offset
                        /\ IF win.Messages[i].Value.json
                           THEN entries[i][1] = "Message Details"
                           ELSE entries[i] = <<"Raw Message", win.Messages[i].Offset,
                                               win.Messages[i].Value>>
                  /\ SelectSeq(text, IsNotice) =
                        IF n > MaxSummarizeMessages
                        THEN << <<"more messages", n - MaxSummarizeMessages>> >>
                        ELSE <<>>
                  /\ n > MaxSummarizeMessages => IsNotice(text[Len(text)])

\* a window of more than 10 messages, one of the first 9 not JSON, was rendered
C17_TruncatedWithRaw ==
    /\ summary.out # <<>>
    /\ summary.w.MessageCount > MaxSummarizeMessages
    /\ \E i \in 1..(MaxSummarizeMessages - 1) : ~summary.w.Messages[i].Value.json
    /\ Len(SelectSeq(summary.out[1].text, IsEntry)) = MaxSummarizeMessages

\* ------------------------------------------------------------------ C18
\* C18: two distinct Window instances created for the same topic and partition,
\* by Start, by AddMessage or by closeWindow, have different IDs, so that the
\* document SaveEmbeddedWindow stores under the ID of one is never overwritten
\* by another's.
C18_DistinctIDs ==
    \A w1, w2 \in Wins :
        w1 # w2 => WindowID(heap[w1]) # WindowID(heap[w2])

\* ------------------------------------------------------------------ C19
\* C19: during the shutdown of main the event source is stopped before the
\* flush: once FlushAllWindows has been invoked, no AddMessage call ingests
\* another event.
C19_NoIngestAfterFlush == [][mainG.flushed => ingested' = ingested]_vars

\* ------------------------------------------------------------------ C20
\* C20: FlushAllWindows returns without waiting for a window closure or a
\* ProcessWindow call: before it holds the mutex it can go on as soon as the
\* mutex is free, and while it holds it one of its steps (an iteration, whose
\* send never blocks, or the unlock) can be taken whatever the flushers and the
\* hand-off goroutines are doing.
C20_FlushNeverWaits ==
    /\ (mainG.pc = "idle" /\ mainG.started /\ ~mainG.flushed) =>
          ((ENABLED FlushLock) <=> mu = NoHolder)
    /\ mainG.pc = "flushing" =>
          ENABLED (FlushUnlock \/ \E p \in Partitions : FlushIter(p))

\* FlushAllWindows has returned: it asked for two windows, its second send
\* found the buffer full and was dropped, and both windows are still open
C20_ReturnedBeforeClosure ==
    /\ mainG.flushed
    /\ mainG.pc = "idle"
    /\ Cardinality(flushRequested) = 2
    /\ Len(flushTrigger) = FlushTriggerCap
    /\ \A w \in flushRequested : ~heap[w].IsClosed

\* ------------------------------------------------------------------ C21
\* the steps of the flusher of heap[w]: the critical section after a flush
\* signal, the critical section after a tick, and what follows each
C21_Step ==
    \A w \in Wins :
        /\ (flusher[w].pc = "flush" /\ flusher'[w].pc # "flush") =>
              /\ flusher'[w].pc = "flushLocked"
              /\ heap'[w].IsClosed
              /\ IF heap[w].IsClosed
                 THEN heap'[w] = heap[w] /\ processed'[w] = processed[w]
                 ELSE /\ Len(processed'[w]) = 1
                      /\ processed'[w][1].trigger = "flush"
        /\ (flusher[w].pc = "flushLocked" /\ flusher'[w].pc # "flushLocked") =>
              flusher'[w].pc = "done"
        /\ (flusher[w].pc = "run" /\ flusher'[w].pc \in {"tickClosed", "tickLocked"}) =>
              LET due == /\ ~heap[w].IsClosed
                         /\ now - heap[w].StartTime >= config.WindowDurationSeconds
              IN  /\ flusher'[w].pc = "tickClosed" <=> due
                  /\ IF due
                     THEN /\ heap'[w].IsClosed
                          /\ Len(processed'[w]) = 1
                          /\ processed'[w][1].trigger = "tick"
                     ELSE heap'[w] = heap[w] /\ processed'[w] = processed[w]
        /\ (flusher[w].pc = "tickClosed" /\ flusher'[w].pc # "tickClosed") =>
              flusher'[w].pc = "done"
        /\ (flusher[w].pc = "tickLocked" /\ flusher'[w].pc # "tickLocked") =>
              flusher'[w].pc = "run"
        /\ flusher[w].pc = "done" => flusher'[w].pc = "done"

\* C21: a flusher that received a flush signal closes its window iff it is not
\* closed yet and then returns in both cases; a flusher woken by its ticker
\* closes its window only if it is not closed and WindowDurationSeconds have
\* elapsed since StartTime, returns if it closed it and keeps running otherwise.
C21_FlusherBranches == [][C21_Step]_vars

\* a flusher whose window the threshold closed received a flush signal after its
\* ticker had fired, and is about to return without having closed anything
C21_SignalOnClosedWindow ==
    \E w \in Wins :
        /\ flusher[w].pc = "flushLocked"
        /\ processed[w] # <<>>
        /\ processed[w][1].trigger = "threshold"
        /\ now >= flusher[w].ticker + config.WindowDurationSeconds

\* ------------------------------------------------------------------ C22
\* the Manager while main asks for no flush: Start, the consumer, the timers
\* and the hand-offs
NextTimers ==
    \/ StartLock(StartPartition)
    \/ StartUnlock
    \/ StartGo
    \/ \E p \in Partitions : \E ts \in MsgTimestamps(now) : AddMessage(p, ts)
    \/ AddMessageUnlock
    \/ \E w \in 1..Len(heap) : FlusherTick(w)
    \/ \E w \in 1..Len(heap) : FlusherTickUnlock(w)
    \/ \E w \in 1..Len(heap) : \E err \in BOOLEAN : HandoffInstall(w, err)
    \/ \E w \in 1..Len(heap) : HandoffUnlock(w)
    \/ Tick

\* the unlock of the goroutine that holds the mutex
HolderUnlock ==
    \/ StartUnlock
    \/ AddMessageUnlock
    \/ \E w \in Wins : FlusherTickUnlock(w) \/ HandoffUnlock(w)

\* fair scheduling: the goroutine that holds the mutex goes on, main starts the
\* goroutine it is about to start, and a flusher that needs the mutex gets it
\* if the mutex is free again and again (sync.Mutex hands the lock to a
\* starving waiter)
FairScheduling ==
    /\ WF_vars(HolderUnlock)
    /\ WF_vars(StartGo)
    /\ \A w \in 1..MaxWindows : SF_vars(w \in Wins /\ FlusherTick(w))

SpecFair == Init /\ [][NextTimers]_vars /\ FairScheduling

\* an open window has a flusher that has not returned; the one of the window of
\* Start is started by main right after the critical section that installs it
FlusherBound ==
    \A w \in OpenWins :
        /\ flusher[w].pc # "done"
        /\ flusher[w].pc = "unborn" =>
              (mainG.pc \in {"startLocked", "startGo"} /\ mainG.w = w)

NextConsumer ==
    \/ StartLock(StartPartition)
    \/ StartUnlock
    \/ StartGo
    \/ \E p \in Partitions : \E ts \in MsgTimestamps(now) : ConsumerFetch(p, ts)
    \/ ConsumerFetchFail
    \/ ConsumerRetry
    \/ ConsumerCall
    \/ ConsumerReturn
    \/ \E ok \in BOOLEAN : ConsumerCommit(ok)
    \/ ConsumerStop
    \/ \E w \in 1..Len(heap) : \E err \in BOOLEAN : HandoffInstall(w, err)
    \/ \E w \in 1..Len(heap) : HandoffUnlock(w)
    \/ Cancel

\* every goroutine holding the mutex runs on to its Unlock, and the consumer
\* goroutine is scheduled: it gets the mutex if it is free again and again
ConsumerScheduling ==
    /\ WF_vars(StartUnlock)
    /\ WF_vars(\E w \in Wins : HandoffUnlock(w))
    /\ WF_vars(ConsumerReturn)
    /\ WF_vars(\E ok \in BOOLEAN : ConsumerCommit(ok))
    /\ WF_vars(ConsumerRetry)
    /\ WF_vars(ConsumerStop)
    /\ SF_vars(ConsumerCall)

SpecConsumer == Init /\ [][NextConsumer]_vars /\ ConsumerScheduling

\* what the loop has done so far: the messages AddMessage got are the fetched
\* ones in fetch order, one call each, and the commits follow the calls
LoopLedger ==
    LET n == Len(ingested)
    IN  /\ Len(reader.fetched) = n + (IF consumer.pc = "fetched" THEN 1 ELSE 0)
        /\ \A i \in 1..n : ingested[i] = reader.fetched[i].Partition
        /\ Len(reader.commits) = n - (IF consumer.pc \in {"locked", "commit"} THEN 1 ELSE 0)
        /\ \A i \in 1..Len(reader.commits) : reader.commits[i].Offset = i

LoopStep ==
    \* a commit is attempted after AddMessage returned, and the loop goes on
    /\ reader'.commits # reader.commits =>
          /\ consumer.pc = "commit"
          /\ mu # ConsumerG
          /\ consumer'.pc = "idle"
    \* leaving the head of the loop without a message: no AddMessage, and the
    \* loop ends only if ctx is cancelled
    /\ (consumer.pc = "idle" /\ consumer'.pc \in {"backoff", "stopped"}) =>
          /\ ingested' = ingested
          /\ consumer'.pc = "stopped" => mainG.cancelled
    /\ consumer.pc = "backoff" =>
          /\ consumer'.pc \in {"backoff", "idle"}
          /\ ingested' = ingested
    \* the loop ends at its head only
    /\ (consumer.pc # "stopped" /\ consumer'.pc = "stopped") => consumer.pc = "idle"
    \* at the head of the loop with ctx cancelled the next step is the return
    /\ (consumer.pc = "idle" /\ mainG.cancelled /\ consumer' # consumer) =>
          consumer'.pc = "stopped"
    /\ consumer.pc = "stopped" => (consumer' = consumer /\ ingested' = ingested)

\* C23: StartConsuming passes every fetched message to AddMessage once, in
\* fetch order, and attempts its commit after AddMessage returned; a failed
\* commit or fetch does not end the loop and a failed fetch makes no
\* AddMessage call; once ctx is cancelled StartConsuming returns (unless the
\* message in hand waits for a window the bound MaxWindows leaves no room for)
C23_ConsumerLoop ==
    /\ []LoopLedger
    /\ [][LoopStep]_vars
    /\ mainG.cancelled ~> (consumer.pc = "stopped" \/ (consumer.pc = "fetched" /\ ~Room(1)))

\* the loop went on after a failed commit, passed a later message, and has
\* returned after the cancellation
C23_StoppedAfterFailedCommit ==
    /\ consumer.pc = "stopped"
    /\ Len(reader.commits) >= 2
    /\ ~reader.commits[1].ok
    /\ Len(ingested) = Len(reader.commits)

\* ------------------------------------------------------------------- C24
\* ProcessWindow invocations of key p started and not yet returned
StartedFor(p) == SumOver(WinsOf(p), [w \in Wins |-> Len(processed[w])])
ReturnedFor(p) == Cardinality({w \in WinsOf(p) : handoff[w].pc \in {"locked", "done"}})
InFlight(p) == StartedFor(p) - ReturnedFor(p)

\* a later window of a key exists only once ProcessWindow has returned for
\* every earlier one
SerialPerKey ==
    \A p \in Partitions :
        /\ InFlight(p) <= 1
        /\ \A v, w \in WinsOf(p) : v < w => handoff[v].pc \in {"locked", "done"}

\* a key that has a window gets another one only in the step in which the
\* hand-off goroutine of its registered window, back from ProcessWindow, takes
\* the lock
SuccessorStep ==
    \A p \in Partitions :
        (Len(heap') > Len(heap) /\ heap'[Len(heap')].Partition = p /\ WinsOf(p) # {}) =>
            /\ windows[p] # NoWindow
            /\ handoff[windows[p]].pc = "processing"
            /\ handoff'[windows[p]].pc = "locked"
            /\ mu' = HandoffG(windows[p])
            /\ windows'[p] = Len(heap')

\* C24: per key at most one ProcessWindow call is in flight; the successor of a
\* closed window is installed by the hand-off goroutine after ProcessWindow
\* returned, so the windows of a key are processed one after the other in
\* creation order.
C24_OneInFlightPerKey ==
    /\ []SerialPerKey
    /\ [][SuccessorStep]_vars

\* ProcessWindow has returned for a window, its hand-off goroutine is done, and
\* the successor it installed is the key's registered window and is filling
C24_SuccessorAfterReturn ==
    \E v, w \in Wins :
        /\ v < w
        /\ heap[v].Partition = heap[w].Partition
        /\ processed[v] # <<>>
        /\ handoff[v].pc = "done"
        /\ windows[heap[w].Partition] = w
        /\ heap[w].MessageCount > 0

\* ------------------------------------------------------------------- C25
\* no step takes a key's entry away, and an entry is created for a key without
\* one only if the key never had a window
RegistryStep ==
    \A p \in Partitions :
        /\ windows[p] # NoWindow => windows'[p] # NoWindow
        /\ (windows[p] = NoWindow /\ windows'[p] # NoWindow) => WinsOf(p) = {}

\* C25: a key that has an entry in Manager.windows has one in every later state
\* (the hand-off's delete and re-insert are one critical section), so AddMessage
\* creates a window lazily at most once per key.
C25_KeyStaysRegistered == [][RegistryStep]_vars

\* a key got its window lazily from AddMessage, and the next AddMessage for the
\* key found the entry and appended to the same window
C25_LazyOnceThenFound ==
    /\ mu = NoHolder
    /\ \E q \in Partitions \ {StartPartition} :
          /\ windows[q] # NoWindow
          /\ windows[q] = FirstWindowOf(q)
          /\ heap[windows[q]].MessageCount >= 2

\* ------------------------------------------------------------------- C26
\* C26: with WindowMaxMessages = N > 0 no Window, open or closed, ever holds
\* more than N messages.
C26_CountWithinThreshold ==
    config.WindowMaxMessages > 0 =>
        \A w \in Wins : heap[w].MessageCount <= config.WindowMaxMessages

\* ------------------------------------------------------------------- C27
\* a step of the goroutine that holds the mutex, inside its critical section
HolderStep ==
    \/ HolderUnlock
    \/ \E w \in Wins : FlusherFlushUnlock(w)
    \/ \E p \in Partitions : FlushIter(p)
    \/ FlushUnlock

\* every goroutine inside a critical section runs on, and a hand-off goroutine
\* back from ProcessWindow gets the mutex if it is free again and again
MutexScheduling ==
    /\ WF_vars(HolderStep)
    /\ \A w \in 1..MaxWindows :
          SF_vars(w \in Wins /\ \E err \in BOOLEAN : HandoffInstall(w, err))

\* the Manager within the first period of every ticker: AddMessage, the flush
\* branch of the flushers, the hand-off goroutines and FlushAllWindows contend
\* for the mutex
NextMutex ==
    \/ StartLock(StartPartition)
    \/ StartUnlock
    \/ StartGo
    \/ \E p \in Partitions : \E ts \in MsgTimestamps(now) : AddMessage(p, ts)
    \/ AddMessageUnlock
    \/ \E w \in 1..Len(heap) : FlusherRecv(w)
    \/ \E w \in 1..Len(heap) : FlusherFlush(w)
    \/ \E w \in 1..Len(heap) : FlusherFlushUnlock(w)
    \/ \E w \in 1..Len(heap) : \E err \in BOOLEAN : HandoffInstall(w, err)
    \/ \E w \in 1..Len(heap) : HandoffUnlock(w)
    \/ FlushLock
    \/ \E p \in Partitions : FlushIter(p)
    \/ FlushUnlock

SpecMutex == Init /\ [][NextMutex]_vars /\ MutexScheduling

\* the holder of the mutex is the one goroutine inside a critical section
HolderInside ==
    /\ mu = MainG <=> mainG.pc \in {"startLocked", "flushing"}
    /\ mu = ConsumerG <=> consumer.pc = "locked"
    /\ \A w \in Wins :
          /\ mu = FlusherG(w) <=> flusher[w].pc \in {"tickLocked", "tickClosed", "flushLocked"}
          /\ mu = HandoffG(w) <=> handoff[w].pc = "locked"

\* nothing inside a critical section waits: the holder has a step to take
HolderCanRun == mu # NoHolder => ENABLED HolderStep

\* closeWindow runs in a goroutine that took the mutex, and the goroutine that
\* locks again for the window is another one
CloseUnderLock ==
    \A w \in Wins :
        (~heap[w].IsClosed /\ heap'[w].IsClosed) =>
            /\ mu = NoHolder
            /\ mu' \in {ConsumerG, FlusherG(w)}
            /\ handoff'[w].runner # mu'

====
